---- MODULE Spec2Model ----
(***************************************************************************)
(* A model of the CDN detection engine of which-cdn                        *)
(* (src/public/js/app.js, class CDNDetector).                               *)
(*                                                                         *)
(* One detectCDN call is one sequential async function: header fetch, then *)
(* CNAME/IP discovery (getIPsFromDNS, one DNS lookup per step), then the   *)
(* ASN and PTR lookups of every discovered IP (all outstanding at once),   *)
(* then the synchronous processing and classification.                     *)
(*                                                                         *)
(* Strings are sequences of atomic text pieces ("www", ".", "fastly", ...),*)
(* so that startsWith, substring, includes, split and trim are computed on *)
(* the text and not assumed.  A JavaScript Set is a duplicate-free sequence *)
(* in insertion order, which is the order Array.from and for-of give.      *)
(***************************************************************************)
EXTENDS Integers, Sequences, FiniteSets, TLC

\* ------------------------------------------------------------------ bounds
\* Longest CNAME chain the upstream zone may hold behind the input domain.
MaxHosts == 10
\* Longest chain of a zone whose names answer with two distinct addresses.
MaxTwoIpChain == 0

\* --------------------------------------------------------- program constants
maxRequests == 10
ASNWeight == 100
DomainWeight == 50
HeaderWeight == 30
ServerWeight == 30

\* ------------------------------------------------------------ text helpers
Range(s) == {s[i] : i \in 1..Len(s)}

\* String.prototype.includes: needle occurs as a contiguous piece of hay.
Includes(hay, needle) ==
  \E i \in 0..(Len(hay) - Len(needle)) : SubSeq(hay, i + 1, i + Len(needle)) = needle

\* String.prototype.startsWith
StartsWith(s, prefix) ==
  Len(s) >= Len(prefix) /\ SubSeq(s, 1, Len(prefix)) = prefix

\* Array.prototype.push in the place of Set.prototype.add.
Push(s, x) == Append(s, x)

\* Set.prototype.add on an insertion-ordered set
SetAdd(s, x) == IF x \in Range(s) THEN s ELSE Append(s, x)

RECURSIVE SetAddAll(_, _)
SetAddAll(s, xs) ==
  IF xs = <<>> THEN s ELSE SetAddAll(SetAdd(s, Head(xs)), Tail(xs))

\* new Set(array)
ToSet(xs) == SetAddAll(<<>>, xs)

RECURSIVE SumSeq(_)
SumSeq(xs) == IF xs = <<>> THEN 0 ELSE Head(xs) + SumSeq(Tail(xs))

\* ------------------------------------------------------- signature catalog
\* this.cdnSignatures, in the iteration order of Object.entries.
cdnSignatures ==
  << [provider |-> "Alibaba",
      asns     |-> <<24429, 37963>>,
      domains  |-> << <<"alicdn", ".", "com">>, <<"yundunwaf3", ".", "com">> >>,
      headers  |-> << <<"X-Alibaba-Cloud-Cache">> >>,
      servers  |-> << >>],
     [provider |-> "Akamai",
      asns     |-> <<20940, 16625, 21342>>,
      domains  |-> << <<"akamai", ".", "net">>, <<"akamaized", ".", "net">>,
                      <<"edgesuite", ".", "net">>,
                      <<"akamaitechnologies", ".", "com">>,
                      <<"akamaiedge", ".", "net">> >>,
      headers  |-> << <<"X-Akamai-Transformed">> >>,
      servers  |-> << <<"AkamaiGHost">> >>],
     [provider |-> "Cloudflare",
      asns     |-> <<13335>>,
      domains  |-> << <<"cloudflare", ".", "com">> >>,
      headers  |-> << <<"CF-RAY">>, <<"CF-Cache-Status">> >>,
      servers  |-> << <<"cloudflare">> >>],
     [provider |-> "Fastly",
      asns     |-> <<54113>>,
      domains  |-> << <<"fastly", ".", "net">> >>,
      headers  |-> << <<"X-Fastly">>, <<"X-Cache-Hit">> >>,
      servers  |-> << <<"fastly">> >>],
     [provider |-> "CloudFront",
      asns     |-> <<16509>>,
      domains  |-> << <<"cloudfront", ".", "net">>,
                      <<"cloudfront", ".", "net", ".", "s3", ".", "amazonaws", ".", "com">> >>,
      headers  |-> << <<"X-Amz-Cf-Pop">> >>,
      servers  |-> << >>],
     [provider |-> "Google",
      asns     |-> <<15169>>,
      domains  |-> << <<"googleusercontent", ".", "com">> >>,
      headers  |-> << <<"X-Google-Cache">> >>,
      servers  |-> << >>],
     [provider |-> "Azure",
      asns     |-> <<8075>>,
      domains  |-> << <<"azureedge", ".", "net">> >>,
      headers  |-> << <<"X-Azure-Ref">> >>,
      servers  |-> << >>] >>

\* ------------------------------------------------------- upstream universe
\* The value the model uses for JavaScript's NaN and null.
NaN == -1
Null == "null"

\* The domains a caller may pass.
InputDomains == { <<"ex", ".", "com">>, <<"www", ".", "ex", ".", "com">> }

\* The k-th alias name of the zone: k copies of "a", then a suffix by k.
Host(k) ==
  [j \in 1..k |-> "a"] \o
  CASE k % 4 = 1 -> <<".", "edge", ".", "ex", ".", "net">>
    [] k % 4 = 2 -> <<".", "fastly", ".", "net">>
    [] k % 4 = 3 -> <<".", "cloudfront", ".", "net", ".", "s3", ".", "amazonaws", ".", "com">>
    [] OTHER     -> <<"-not", "fastly", ".", "net", ".", "ex", ".", "org">>

IP1 == <<"192", ".", "0", ".", "2", ".", "1">>
IP2 == <<"192", ".", "0", ".", "2", ".", "2">>

\* The upstream zones: a shape, the length of the alias chain behind the
\* input domain, and how many addresses its names answer with.
Shapes == {"chain", "full", "self", "cycle"}
Zones ==
  { z \in [shape : Shapes, len : 0..MaxHosts, ipMode : 0..2] :
      z.ipMode = 2 => z.len <= MaxTwoIpChain }

\* The header dumps the header service may answer with, line by line.
HeaderTexts ==
  { << <<"HTTP/", "1.1 200 OK">>, <<"X-Fastly", ":", " ", "1", "\r">>, <<>> >>,
    << <<"X-Fastly", ":">>, <<"server", ":", " ", "cloudflare", "-nginx">> >>,
    << <<"Server", ":", " ", "AkamaiGHost">>, <<"CF-RAY", ":", " ", "8a1", ":", "b2">>,
       <<"no colon here">>, <<" ">> >>,
    << <<"x-fastly", ":", " ", "1">>, <<"Date", ":", " ", "12", ":", "30">> >>,
    << <<"X-Fastly", ":", " ", "1">>, <<"X-Cache-Hit", ":", " ", "1">>,
       <<"CF-RAY", ":", " ", "x">>, <<"X-Fastly", ":", " ", "2">> >> }

\* The org fields the IP information service may answer with; <<>> stands
\* for a response without org field (or with an empty one: both are falsy).
OrgTexts ==
  { <<>>,
    <<"AS", "13335", " ", "Cloudflare">>,
    <<"AS", "64500", " ", "Example">>,
    <<"Example", " ", "AS", "13335">> }

\* The PTR names the resolver may answer with.
PTRNames ==
  { <<"srv", ".", "cloudflare", ".", "com">>, Host(2), <<"host", ".", "ex", ".", "org">> }

Whitespace == {" ", "\r", "\t"}
DigitValue(tok) ==
  CASE tok = "13335" -> 13335
    [] tok = "64500" -> 64500
    [] OTHER -> NaN

\* ------------------------------------------------------------------- state
VARIABLES
  domain,          \* the argument of detectCDN
  zone,            \* the upstream DNS zone of this call
  pc,              \* where detectCDN stands
  results,         \* detectCDN: results
  data,            \* detectCDN: data
  domainsToFollow, \* getIPsFromDNS: the work queue
  domainToFollow,  \* getIPsFromDNS: the name whose lookup is outstanding
  cNameChain,      \* getIPsFromDNS: the visited names
  ips,             \* getIPsFromDNS: the addresses found
  requestCount,    \* getIPsFromDNS: the lookups that have returned
  dnsCalls,        \* number of doDNSLookup calls issued by this getIPsFromDNS
  dnsStatus,       \* getIPsFromDNS: "idle", "running", "returned" or "threw"
  headersStatus,   \* getHeaders: "pending", "fulfilled" or "rejected"
  asnResults,      \* the ASN promise of each data.ips entry
  reverseDNSResults, \* the PTR promise of each data.ips entry
  legacy           \* the call of the legacy detector (cdn-detector.js)

vars == <<domain, zone, pc, results, data, domainsToFollow, domainToFollow,
          cNameChain, ips, requestCount, dnsCalls, dnsStatus, headersStatus,
          asnResults, reverseDNSResults, legacy>>

\* -------------------------------------------------------- upstream answers
ARecord(ip) == [type |-> 1, data |-> ip]
CNAMERecord(name) == [type |-> 5, data |-> name]
\* A record type the detector does not read (RRSIG).
OtherRecord(name) == [type |-> 46, data |-> name]

\* Node 0 of a zone is the input domain, node k its k-th alias.
Node(d, k) == IF k = 0 THEN d ELSE Host(k)

Addresses(z) ==
  CASE z.ipMode = 0 -> <<>>
    [] z.ipMode = 1 -> <<ARecord(IP1)>>
    [] OTHER        -> <<ARecord(IP1), ARecord(IP2), ARecord(IP1)>>

\* The Answer array the DNS service gives for node k of zone z.
NodeAnswer(z, d, k) ==
  CASE z.shape = "chain" ->
         IF k < z.len THEN <<CNAMERecord(Node(d, k + 1))>> ELSE Addresses(z)
    [] z.shape = "full" ->
         [j \in 1..(z.len - k) |-> CNAMERecord(Node(d, k + j))]
           \o <<OtherRecord(Node(d, k))>> \o Addresses(z)
    [] z.shape = "self" ->
         IF k < z.len
         THEN <<CNAMERecord(Node(d, k)), CNAMERecord(Node(d, k + 1)),
                CNAMERecord(Node(d, k + 1))>>
         ELSE <<CNAMERecord(Node(d, k))>> \o Addresses(z)
    [] OTHER ->
         IF k < z.len THEN <<CNAMERecord(Node(d, k + 1))>>
         ELSE <<CNAMERecord(d)>> \o Addresses(z)

\* ---------------------------------------------------------------- discovery
\* getIPsFromDNS: the www counterpart of the input domain.
Counterpart(d) ==
  IF StartsWith(d, <<"www", ".">>) THEN SubSeq(d, 3, Len(d)) ELSE <<"www", ".">> \o d

\* The Answer array for the counterpart name.
CounterpartAnswer(z, d) ==
  CASE z.shape = "chain" -> <<>>
    [] z.shape = "full"  -> <<CNAMERecord(d)>>
    [] z.shape = "self"  -> <<CNAMERecord(Counterpart(d))>>
    [] OTHER -> (IF z.len >= 1 THEN <<CNAMERecord(Host(1))>> ELSE <<>>)
                  \o (IF z.ipMode = 2 THEN <<ARecord(IP1)>> ELSE <<>>)

\* The Answer array the DNS service gives for a name (<<>>: no Answer).
ZoneAnswer(z, d, name) ==
  IF name = d THEN NodeAnswer(z, d, 0)
  ELSE IF name = Counterpart(d) THEN CounterpartAnswer(z, d)
  ELSE IF \E k \in 1..z.len : name = Host(k)
       THEN NodeAnswer(z, d, CHOOSE k \in 1..z.len : name = Host(k))
       ELSE <<>>

IsA(answer) == answer.type = 1
IsCNAME(answer) == answer.type = 5
DataOf(answers) == [i \in 1..Len(answers) |-> answers[i].data]

\* doDNSLookup on a response that arrived: [ips, cNameChain].
doDNSLookup(Answer) ==
  IF Answer = <<>> THEN [ips |-> <<>>, cNameChain |-> <<>>]
  ELSE [ips        |-> ToSet(DataOf(SelectSeq(Answer, IsA))),
        cNameChain |-> ToSet(DataOf(SelectSeq(Answer, IsCNAME)))]

\* getIPsFromDNS: the initial work queue.
InitialQueue(d) == <<d, Counterpart(d)>>

\* The enqueueing loop without the domainsToFollow.includes test.
RECURSIVE EnqueueUnlessVisited(_, _, _)
EnqueueUnlessVisited(queue, visited, cnames) ==
  IF cnames = <<>> THEN queue
  ELSE EnqueueUnlessVisited(IF Head(cnames) \notin Range(visited)
                            THEN Append(queue, Head(cnames)) ELSE queue,
                            visited, Tail(cnames))

\* getIPsFromDNS: the for loop that enqueues the CNAME targets.
RECURSIVE Enqueue(_, _, _)
Enqueue(queue, visited, cnames) ==
  IF cnames = <<>> THEN queue
  ELSE Enqueue(IF Head(cnames) \notin Range(visited) /\ Head(cnames) \notin Range(queue)
               THEN Append(queue, Head(cnames)) ELSE queue,
               visited, Tail(cnames))

\* Array.prototype.pop in the place of shift: the last element is taken.
Pop(queue) == [head |-> queue[Len(queue)], rest |-> SubSeq(queue, 1, Len(queue) - 1)]

\* Array.prototype.shift: the element taken and the rest.
Shift(queue) == [head |-> Head(queue), rest |-> Tail(queue)]

\* The while condition with the budget compared by <= (one lookup too many).
LoopContinuesInclusive(queue, count) == Len(queue) > 0 /\ count <= maxRequests

\* getIPsFromDNS: the while condition.
LoopContinues(queue, count) == Len(queue) > 0 /\ count < maxRequests

\* ------------------------------------------------------------ header fetch
RECURSIVE TrimStart(_)
TrimStart(s) ==
  IF s # <<>> /\ Head(s) \in Whitespace THEN TrimStart(Tail(s)) ELSE s

RECURSIVE TrimEnd(_)
TrimEnd(s) ==
  IF s # <<>> /\ s[Len(s)] \in Whitespace THEN TrimEnd(SubSeq(s, 1, Len(s) - 1)) ELSE s

\* String.prototype.trim
Trim(s) == TrimEnd(TrimStart(s))

\* String.prototype.indexOf for one piece, 1-based; 0 when absent.
IndexOf(s, c) ==
  IF \E i \in 1..Len(s) : s[i] = c
  THEN CHOOSE i \in 1..Len(s) : s[i] = c /\ \A j \in 1..(i - 1) : s[j] # c
  ELSE 0

\* headers[key] = value on a plain object.
SetKey(h, key, value) ==
  [k \in (DOMAIN h) \cup {key} |-> IF k = key THEN value ELSE h[k]]

\* getHeaders: the body of the loop over the lines, for one line.
ParseLine(h, line) ==
  IF Trim(line) = <<>> \/ StartsWith(line, <<"HTTP/">>) THEN h
  ELSE IF IndexOf(line, ":") = 0 THEN h
  ELSE SetKey(h, Trim(SubSeq(line, 1, IndexOf(line, ":") - 1)),
                 Trim(SubSeq(line, IndexOf(line, ":") + 1, Len(line))))

RECURSIVE ParseLines(_, _)
ParseLines(h, lines) ==
  IF lines = <<>> THEN h ELSE ParseLines(ParseLine(h, Head(lines)), Tail(lines))

\* getHeaders on a response with resp.ok: the mapping of the header dump.
getHeaders(text) == ParseLines(<<>>, text)

\* ----------------------------------------------------------- ASN and PTR
\* org.split(' ')[0]
FirstWord(s) ==
  IF IndexOf(s, " ") = 0 THEN s ELSE SubSeq(s, 1, IndexOf(s, " ") - 1)

\* String.prototype.replace(piece, ''): the first occurrence is removed.
RemoveFirst(s, c) ==
  IF IndexOf(s, c) = 0 THEN s
  ELSE SubSeq(s, 1, IndexOf(s, c) - 1) \o SubSeq(s, IndexOf(s, c) + 1, Len(s))

\* parseInt(text, 10); parseInt(null) is NaN.
ParseInt(s) == IF TrimStart(s) = <<>> THEN NaN ELSE DigitValue(Head(TrimStart(s)))

\* getASNInfo on a response that arrived, by its org field.
getASNInfo(org) ==
  [st           |-> "fulfilled",
   isNull       |-> FALSE,
   asn          |-> IF org = <<>> THEN NaN ELSE ParseInt(RemoveFirst(FirstWord(org), "AS")),
   organization |-> org]

\* getASNInfo when the request or the reading of its body fails.
ASNLookupFailed == [st |-> "fulfilled", isNull |-> TRUE, asn |-> NaN, organization |-> <<>>]
ASNPending == [st |-> "pending", isNull |-> TRUE, asn |-> NaN, organization |-> <<>>]

\* getReverseDNS on a response that arrived, by its Answer array; <<>> as
\* name stands for null.
getReverseDNS(Answer) ==
  [st |-> "fulfilled", name |-> IF Answer = <<>> THEN <<>> ELSE Answer[1].data]

ReverseDNSFailed == [st |-> "fulfilled", name |-> <<>>]
ReverseDNSPending == [st |-> "pending", name |-> <<>>]

\* Promise.any in the place of Promise.all: one fulfilled promise is enough.
AnyFulfilled(batch) ==
  Len(batch) = 0 \/ \E i \in 1..Len(batch) : batch[i].st = "fulfilled"

\* Promise.all of a batch is fulfilled once every promise of it is.
AllFulfilled(batch) == \A i \in 1..Len(batch) : batch[i].st = "fulfilled"

\* a.asn === asn.asn, where NaN equals nothing.
SameASN(a, b) == a # NaN /\ b # NaN /\ a = b

\* The ASN processing without the find test: every record is pushed.
RECURSIVE ProcessASNNoDedup(_, _)
ProcessASNNoDedup(asns, values) ==
  IF values = <<>> THEN asns
  ELSE ProcessASNNoDedup(
         IF ~Head(values).isNull
         THEN Append(asns, [asn |-> Head(values).asn,
                            organization |-> Head(values).organization])
         ELSE asns,
         Tail(values))

\* detectCDN: "Process ASN results".
RECURSIVE ProcessASN(_, _)
ProcessASN(asns, values) ==
  IF values = <<>> THEN asns
  ELSE ProcessASN(
         IF ~Head(values).isNull
            /\ ~\E i \in 1..Len(asns) : SameASN(asns[i].asn, Head(values).asn)
         THEN Append(asns, [asn |-> Head(values).asn,
                            organization |-> Head(values).organization])
         ELSE asns,
         Tail(values))

\* detectCDN: "Process reverse DNS results".
RECURSIVE ProcessReverseDNS(_, _)
ProcessReverseDNS(result, values) ==
  IF values = <<>> THEN result
  ELSE ProcessReverseDNS(
         IF Head(values).name # <<>> THEN SetAdd(result, Head(values).name) ELSE result,
         Tail(values))

\* ----------------------------------------------------------- classification
RECURSIVE Flatten(_)
Flatten(ss) == IF ss = <<>> THEN <<>> ELSE Head(ss) \o Flatten(Tail(ss))

\* One evidence entry; the message is kept as its kind and the values it
\* interpolates besides the provider.
Evidence(provider, weight, kind, asn, name) ==
  [provider |-> provider, weight |-> weight,
   message |-> [kind |-> kind, asn |-> asn, name |-> name]]

\* detectCDN: "Check ASN".
ASNEvidence(sig, d) ==
  Flatten([i \in 1..Len(sig.asns) |->
    Flatten([j \in 1..Len(d.asns) |->
      IF d.asns[j].asn = sig.asns[i]
      THEN <<Evidence(sig.provider, ASNWeight, "ASN", sig.asns[i], <<>>)>>
      ELSE <<>>])])

\* String.prototype.endsWith
EndsWith(s, suffix) ==
  Len(s) >= Len(suffix) /\ SubSeq(s, Len(s) - Len(suffix) + 1, Len(s)) = suffix

\* The CNAME and reverse DNS check with the suffix anchored at the end of
\* the name (endsWith instead of includes).
DomainEvidenceAnchored(sig, d) ==
  Flatten([i \in 1..Len(sig.domains) |->
    Flatten([j \in 1..Len(d.cnameChain) |->
      IF EndsWith(d.cnameChain[j], sig.domains[i])
      THEN <<Evidence(sig.provider, DomainWeight, "CNAME", 0, d.cnameChain[j])>>
      ELSE <<>>])
    \o
    Flatten([j \in 1..Len(d.reverseDNS) |->
      IF EndsWith(d.reverseDNS[j], sig.domains[i])
      THEN <<Evidence(sig.provider, DomainWeight, "Reverse DNS", 0, d.reverseDNS[j])>>
      ELSE <<>>])])

\* detectCDN: "Check CNAME and reverse DNS".
DomainEvidence(sig, d) ==
  Flatten([i \in 1..Len(sig.domains) |->
    Flatten([j \in 1..Len(d.cnameChain) |->
      IF Includes(d.cnameChain[j], sig.domains[i])
      THEN <<Evidence(sig.provider, DomainWeight, "CNAME", 0, d.cnameChain[j])>>
      ELSE <<>>])
    \o
    Flatten([j \in 1..Len(d.reverseDNS) |->
      IF Includes(d.reverseDNS[j], sig.domains[i])
      THEN <<Evidence(sig.provider, DomainWeight, "Reverse DNS", 0, d.reverseDNS[j])>>
      ELSE <<>>])])

\* if (data.headers[header]): the key is there and its value is not ''.
HeaderTruthy(h, header) == header \in DOMAIN h /\ h[header] # <<>>

\* detectCDN: "Check general headers".
HeaderEvidence(sig, d) ==
  Flatten([i \in 1..Len(sig.headers) |->
    IF HeaderTruthy(d.headers, sig.headers[i])
    THEN <<Evidence(sig.provider, HeaderWeight, "Header", 0, sig.headers[i])>>
    ELSE <<>>])

\* The server check with === in the place of includes.
ServerEvidenceExact(sig, d) ==
  Flatten([i \in 1..Len(sig.servers) |->
    IF <<"server">> \in DOMAIN d.headers
       /\ d.headers[<<"server">>] = sig.servers[i]
    THEN <<Evidence(sig.provider, ServerWeight, "Server header", 0, sig.servers[i])>>
    ELSE <<>>])

\* detectCDN: "Check server headers".
ServerEvidence(sig, d) ==
  Flatten([i \in 1..Len(sig.servers) |->
    IF <<"server">> \in DOMAIN d.headers
       /\ Includes(d.headers[<<"server">>], sig.servers[i])
    THEN <<Evidence(sig.provider, ServerWeight, "Server header", 0, sig.servers[i])>>
    ELSE <<>>])

\* detectCDN: one pass of the loop over the catalog.
ProviderEvidence(sig, d) ==
  ASNEvidence(sig, d) \o DomainEvidence(sig, d) \o HeaderEvidence(sig, d)
    \o ServerEvidence(sig, d)

\* detectCDN: "Data analysis phase".
Analyse(d) ==
  Flatten([i \in 1..Len(cdnSignatures) |-> ProviderEvidence(cdnSignatures[i], d)])

\* Object.keys(providerAndWeights): the providers in order of first evidence.
WeightKeys(evidence) == ToSet([i \in 1..Len(evidence) |-> evidence[i].provider])

\* providerAndWeights[provider]
WeightOf(evidence, provider) ==
  SumSeq([i \in 1..Len(evidence) |->
            IF evidence[i].provider = provider THEN evidence[i].weight ELSE 0])

\* sumWeights assigned instead of accumulated: the last weight only.
sumWeightsLast(evidence) == evidence[Len(evidence)].weight

sumWeights(evidence) == SumSeq([i \in 1..Len(evidence) |-> evidence[i].weight])

\* Math.max(...Object.values(providerAndWeights))
maxWeight(evidence) ==
  CHOOSE w \in {WeightOf(evidence, p) : p \in Range(WeightKeys(evidence))} :
    \A p \in Range(WeightKeys(evidence)) : WeightOf(evidence, p) <= w

\* The last key with the maximal weight instead of the first.
maxProviderLast(evidence) ==
  LET keys == WeightKeys(evidence)
      i == CHOOSE i \in 1..Len(keys) :
             /\ WeightOf(evidence, keys[i]) = maxWeight(evidence)
             /\ \A j \in (i + 1)..Len(keys) : WeightOf(evidence, keys[j]) # maxWeight(evidence)
  IN keys[i]

\* Array.prototype.find over the keys: the first key with the maximal weight.
maxProvider(evidence) ==
  LET keys == WeightKeys(evidence)
      i == CHOOSE i \in 1..Len(keys) :
             /\ WeightOf(evidence, keys[i]) = maxWeight(evidence)
             /\ \A j \in 1..(i - 1) : WeightOf(evidence, keys[j]) # maxWeight(evidence)
  IN keys[i]

\* maxWeight / sumWeights, kept as the fraction it is.
Confidence(evidence) == [num |-> maxWeight(evidence), den |-> sumWeights(evidence)]

NoConfidence == [num |-> 0, den |-> 1]

\* detectCDN: the results object as constructed.
InitialResults ==
  [cdnDetected |-> FALSE, cdnProvider |-> Null, confidence |-> NoConfidence,
   evidence |-> <<>>]

\* detectCDN: the data object as constructed.
InitialData ==
  [headers |-> <<>>, cnameChain |-> <<>>, ips |-> <<>>, asns |-> <<>>, reverseDNS |-> <<>>]

\* The classification with the evidence test off by one (length > 1).
ClassifyOffByOne(evidence) ==
  IF Len(evidence) > 1
  THEN [cdnDetected |-> TRUE, cdnProvider |-> maxProvider(evidence),
        confidence |-> Confidence(evidence), evidence |-> evidence]
  ELSE [InitialResults EXCEPT !.evidence = evidence]

\* detectCDN: "Classify based on evidence".
Classify(evidence) ==
  IF Len(evidence) > 0
  THEN [cdnDetected |-> TRUE, cdnProvider |-> maxProvider(evidence),
        confidence |-> Confidence(evidence), evidence |-> evidence]
  ELSE [InitialResults EXCEPT !.evidence = evidence]

\* ---------------------------------------------------------- legacy detector
\* cdn-detector.js: this.cdnSignatures, in the order of Object.entries.
legacySignatures ==
  << [provider |-> "akamai",
      asns     |-> <<20940, 16625, 21342>>,
      domains  |-> << <<"akamai", ".", "net">>, <<"akamaized", ".", "net">>,
                      <<"edgesuite", ".", "net">> >>],
     [provider |-> "cloudflare",
      asns     |-> <<13335>>,
      domains  |-> << <<"cloudflare", ".", "com">> >>],
     [provider |-> "fastly",
      asns     |-> <<54113>>,
      domains  |-> << <<"fastly", ".", "net">> >>],
     [provider |-> "cloudfront",
      asns     |-> <<16509>>,
      domains  |-> << <<"cloudfront", ".", "net">> >>],
     [provider |-> "google",
      asns     |-> <<15169>>,
      domains  |-> << <<"googleusercontent", ".", "com">> >>],
     [provider |-> "azure",
      asns     |-> <<8075>>,
      domains  |-> << <<"azureedge", ".", "net">> >>] >>

\* The increments of results.confidence and the hop budget of the two
\* chain walks.
LegacyASNWeight == 40
LegacyReverseDNSWeight == 30
LegacyCNAMEWeight == 25
maxHops == 10

\* The results object at the entry of the legacy detectCDN; <<>> stands for
\* a null ip, asn and organization.
LegacyResults(d) ==
  [domain |-> d, cdnDetected |-> FALSE, cdnProvider |-> Null, confidence |-> 0,
   evidence |-> <<>>, ip |-> <<>>, asn |-> <<>>, organization |-> <<>>,
   cnameChain |-> <<>>, error |-> Null]

\* The legacy getASNInfo on a response that arrived: the AS number is kept
\* as text, and an empty text becomes null.
LegacyASNInfo(org) ==
  [isNull |-> FALSE,
   asn |-> IF org = <<>> THEN <<>> ELSE RemoveFirst(FirstWord(org), "AS"),
   organization |-> org]

\* The legacy getASNInfo when the request fails: null.
LegacyNoASNInfo == [isNull |-> TRUE, asn |-> <<>>, organization |-> <<>>]

\* The locals of a legacy call before its first request is answered.
LegacyEntry(d) ==
  [pc |-> "getIPFromDNS", results |-> LegacyResults(d), ip |-> <<>>,
   asnInfo |-> LegacyNoASNInfo, reverseDNS |-> <<>>, currentDomain |-> d,
   hopCount |-> 0, chain |-> <<>>]

\* No legacy call is made.
LegacyIdle == [LegacyEntry(<<>>) EXCEPT !.pc = "idle"]

\* One match found by a loop of the legacy detectCDN: the provider and the
\* evidence string, kept as its kind and the values it interpolates.
LegacyHit(provider, kind, asn, name) ==
  [provider |-> provider, message |-> [kind |-> kind, asn |-> asn, name |-> name]]

\* The loop over the catalog of step 2: signatures.asns.includes(parseInt(asn)).
LegacyASNHits(asnInfo) ==
  Flatten([k \in 1..Len(legacySignatures) |->
    IF ParseInt(asnInfo.asn) \in Range(legacySignatures[k].asns)
    THEN <<LegacyHit(legacySignatures[k].provider, "ASN", asnInfo.asn,
                     <<legacySignatures[k].provider>>)>>
    ELSE <<>>])

\* The loops over the catalog and its domains of steps 3 and 4 for one name.
LegacyDomainHits(name, kind) ==
  Flatten([k \in 1..Len(legacySignatures) |->
    Flatten([j \in 1..Len(legacySignatures[k].domains) |->
      IF Includes(name, legacySignatures[k].domains[j])
      THEN <<LegacyHit(legacySignatures[k].provider, kind, <<>>,
                       legacySignatures[k].domains[j])>>
      ELSE <<>>])])

\* The loop over the CNAME chain of step 4.
LegacyCNAMEHits(chain) ==
  Flatten([i \in 1..Len(chain) |-> LegacyDomainHits(chain[i], "CNAME chain")])

\* The body of a match with = in the place of +=.
RECURSIVE LegacyScoreAssign(_, _, _)
LegacyScoreAssign(r, hits, weight) ==
  IF hits = <<>> THEN r
  ELSE LegacyScoreAssign([r EXCEPT !.cdnDetected = TRUE,
                                   !.cdnProvider = Head(hits).provider,
                                   !.confidence = weight,
                                   !.evidence = Append(@, Head(hits).message)],
                         Tail(hits), weight)

\* The body of a match, for every match in turn.
RECURSIVE LegacyScore(_, _, _)
LegacyScore(r, hits, weight) ==
  IF hits = <<>> THEN r
  ELSE LegacyScore([r EXCEPT !.cdnDetected = TRUE,
                             !.cdnProvider = Head(hits).provider,
                             !.confidence = @ + weight,
                             !.evidence = Append(@, Head(hits).message)],
                   Tail(hits), weight)

\* Step 2 of the legacy detectCDN on the settled getASNInfo.
LegacyStep2(r, asnInfo) ==
  IF asnInfo.isNull THEN r
  ELSE LegacyScore([r EXCEPT !.asn = asnInfo.asn, !.organization = asnInfo.organization],
                   LegacyASNHits(asnInfo), LegacyASNWeight)

\* Step 3 of the legacy detectCDN on the settled getReverseDNS.
LegacyStep3(r, reverseDNS) ==
  IF reverseDNS = <<>> THEN r
  ELSE LegacyScore(r, LegacyDomainHits(reverseDNS, "Reverse DNS"), LegacyReverseDNSWeight)

\* Step 4 of the legacy detectCDN on the chain getCNAMEChain returned.
LegacyStep4(r, chain) ==
  IF Len(chain) = 0 THEN r
  ELSE LegacyScore([r EXCEPT !.cnameChain = chain], LegacyCNAMEHits(chain),
                   LegacyCNAMEWeight)

\* The Answer array the DNS service gives to a query of type CNAME: the
\* CNAME records of the name.
LegacyCNAMEAnswer(z, d, name) == SelectSeq(ZoneAnswer(z, d, name), IsCNAME)

\* ------------------------------------------------------------------ actions
Init ==
  /\ domain \in InputDomains
  /\ zone \in Zones
  /\ pc = "getHeaders"
  /\ results = InitialResults
  /\ data = InitialData
  /\ domainsToFollow = <<>>
  /\ domainToFollow = <<>>
  /\ cNameChain = <<>>
  /\ ips = <<>>
  /\ requestCount = 0
  /\ dnsCalls = 0
  /\ dnsStatus = "idle"
  /\ headersStatus = "pending"
  /\ asnResults = <<>>
  /\ reverseDNSResults = <<>>
  /\ legacy = LegacyIdle

\* A try block without its catch: the error leaves detectCDN.
Rethrow(next) == "rejected"

\* try { ... } catch (error) { console.error(...) }: detectCDN goes on.
AfterCatch(next) == next

\* getIPsFromDNS is entered: the queue is seeded and, the while condition
\* holding, the first name is shifted and its lookup issued.
EnterDiscovery ==
  /\ domainsToFollow' = Shift(InitialQueue(domain)).rest
  /\ domainToFollow' = Shift(InitialQueue(domain)).head
  /\ cNameChain' = <<>>
  /\ ips' = <<>>
  /\ requestCount' = 0
  /\ dnsCalls' = 1
  /\ dnsStatus' = "running"

\* getHeaders fulfils with the parsed mapping.
HeadersFetched ==
  /\ pc = "getHeaders"
  /\ \E text \in HeaderTexts : data' = [data EXCEPT !.headers = getHeaders(text)]
  /\ headersStatus' = "fulfilled"
  /\ pc' = "getIPs"
  /\ EnterDiscovery
  /\ UNCHANGED <<legacy, domain, zone, results, asnResults, reverseDNSResults>>

\* getHeaders rejects: network error, timeout or a status that is not ok.
HeadersFailed ==
  /\ pc = "getHeaders"
  /\ headersStatus' = "rejected"
  /\ pc' = AfterCatch("getIPs")
  /\ EnterDiscovery
  /\ UNCHANGED <<legacy, domain, zone, results, data, asnResults, reverseDNSResults>>

\* detectCDN after getIPsFromDNS: data.ips and data.cnameChain, where an
\* empty address set is thrown as 'Could not resolve IP' and caught.
TakeDiscovery(d, foundIps, visited) ==
  IF Len(foundIps) = 0 THEN d
  ELSE [d EXCEPT !.ips = foundIps, !.cnameChain = visited]

\* The two enrichment batches: one pending promise per data.ips entry.
IssueEnrichment(d) ==
  /\ asnResults' = [i \in 1..Len(d.ips) |-> ASNPending]
  /\ reverseDNSResults' = [i \in 1..Len(d.ips) |-> ReverseDNSPending]

\* A lookup of getIPsFromDNS returns: one pass of the while loop, and the
\* return of getIPsFromDNS when the while condition fails.
DNSAnswered ==
  /\ pc = "getIPs"
  /\ LET rec     == doDNSLookup(ZoneAnswer(zone, domain, domainToFollow))
         count   == requestCount + 1
         visited == SetAdd(cNameChain, domainToFollow)
         found   == SetAddAll(ips, rec.ips)
         queue   == Enqueue(domainsToFollow, visited, rec.cNameChain)
     IN /\ requestCount' = count
        /\ cNameChain' = visited
        /\ ips' = found
        /\ IF LoopContinues(queue, count)
           THEN /\ domainToFollow' = Shift(queue).head
                /\ domainsToFollow' = Shift(queue).rest
                /\ dnsCalls' = dnsCalls + 1
                /\ UNCHANGED <<pc, dnsStatus, data, asnResults, reverseDNSResults>>
           ELSE /\ domainsToFollow' = queue
                /\ dnsStatus' = "returned"
                /\ \E d \in {TakeDiscovery(data, found, visited)} :
                     data' = d /\ IssueEnrichment(d)
                /\ pc' = IF Len(found) = 0 THEN AfterCatch("enrich") ELSE "enrich"
                /\ UNCHANGED <<domainToFollow, dnsCalls>>
  /\ UNCHANGED <<legacy, domain, zone, results, headersStatus>>

\* A lookup of getIPsFromDNS throws (network error, timeout, unreadable
\* body): getIPsFromDNS rejects and detectCDN catches it.
DNSFailed ==
  /\ pc = "getIPs"
  /\ dnsStatus' = "threw"
  /\ pc' = AfterCatch("enrich")
  /\ IssueEnrichment(data)
  /\ UNCHANGED <<legacy, domain, zone, results, data, domainsToFollow, domainToFollow,
                 cNameChain, ips, requestCount, dnsCalls, headersStatus>>

\* The outcomes of one getASNInfo call.
ASNOutcomes == {ASNLookupFailed} \cup {getASNInfo(org) : org \in OrgTexts}

\* The outcomes of one getReverseDNS call.
ReverseDNSOutcomes ==
  {ReverseDNSFailed, getReverseDNS(<<>>)}
    \cup {getReverseDNS(<<[type |-> 12, data |-> n]>>) : n \in PTRNames}

ASNSettled ==
  /\ pc = "enrich"
  /\ \E i \in 1..Len(asnResults) :
       /\ asnResults[i].st = "pending"
       /\ \E r \in ASNOutcomes : asnResults' = [asnResults EXCEPT ![i] = r]
  /\ UNCHANGED <<legacy, domain, zone, pc, results, data, domainsToFollow, domainToFollow,
                 cNameChain, ips, requestCount, dnsCalls, dnsStatus, headersStatus,
                 reverseDNSResults>>

ReverseDNSSettled ==
  /\ pc = "enrich"
  /\ \E i \in 1..Len(reverseDNSResults) :
       /\ reverseDNSResults[i].st = "pending"
       /\ \E r \in ReverseDNSOutcomes :
            reverseDNSResults' = [reverseDNSResults EXCEPT ![i] = r]
  /\ UNCHANGED <<legacy, domain, zone, pc, results, data, domainsToFollow, domainToFollow,
                 cNameChain, ips, requestCount, dnsCalls, dnsStatus, headersStatus,
                 asnResults>>

\* detectCDN once both batches have settled: processing of the results, the
\* analysis, the classification and the return.
Finish ==
  /\ pc = "enrich"
  /\ AllFulfilled(asnResults)
  /\ AllFulfilled(reverseDNSResults)
  /\ \E d \in {[data EXCEPT !.asns = ProcessASN(<<>>, asnResults),
                             !.reverseDNS = ProcessReverseDNS(<<>>, reverseDNSResults)]} :
       \E evidence \in {Analyse(d)} :
         /\ data' = d
         /\ results' = Classify(evidence)
  /\ pc' = "returned"
  /\ UNCHANGED <<legacy, domain, zone, domainsToFollow, domainToFollow, cNameChain, ips,
                 requestCount, dnsCalls, dnsStatus, headersStatus, asnResults,
                 reverseDNSResults>>

\* A response has started and its body never ends: fetchWithTimeout has
\* cleared its timer, so the await of the body never settles.
Stall ==
  /\ \/ pc \in {"getHeaders", "getIPs"}
     \/ pc = "enrich" /\ ~(AllFulfilled(asnResults) /\ AllFulfilled(reverseDNSResults))
  /\ pc' = "hung"
  /\ UNCHANGED <<legacy, domain, zone, results, data, domainsToFollow, domainToFollow,
                 cNameChain, ips, requestCount, dnsCalls, dnsStatus, headersStatus,
                 asnResults, reverseDNSResults>>

Next ==
  \/ HeadersFetched
  \/ HeadersFailed
  \/ DNSAnswered
  \/ DNSFailed
  \/ ASNSettled
  \/ ReverseDNSSettled
  \/ Finish
  \/ Stall

Spec == Init /\ [][Next]_vars

\* --------------------------------------------------- legacy detector: steps
\* The state of the current detector, which a legacy call does not touch.
detectorVars == <<domain, zone, pc, results, data, domainsToFollow, domainToFollow,
                  cNameChain, ips, requestCount, dnsCalls, dnsStatus, headersStatus,
                  asnResults, reverseDNSResults>>

\* A call of the legacy detectCDN: its first DNS request is outstanding.
LegacyInit ==
  /\ domain \in InputDomains
  /\ zone \in Zones
  /\ pc = "idle"
  /\ results = InitialResults
  /\ data = InitialData
  /\ domainsToFollow = <<>>
  /\ domainToFollow = <<>>
  /\ cNameChain = <<>>
  /\ ips = <<>>
  /\ requestCount = 0
  /\ dnsCalls = 0
  /\ dnsStatus = "idle"
  /\ headersStatus = "pending"
  /\ asnResults = <<>>
  /\ reverseDNSResults = <<>>
  /\ legacy = LegacyEntry(domain)

\* Step 1 of the legacy detectCDN once getIPFromDNS has returned ip (<<>>
\* for null): without an address the call returns with an error.
LegacyResolved(l, ip) ==
  IF ip = <<>>
  THEN [l EXCEPT !.results.error = "Could not resolve IP", !.pc = "returned"]
  ELSE [l EXCEPT !.ip = ip, !.results.ip = ip, !.pc = "getASNInfo"]

\* The end of the legacy detectCDN once getCNAMEChain has returned.
LegacyReturn(l) == [l EXCEPT !.results = LegacyStep4(@, l.chain), !.pc = "returned"]

\* getIPFromDNS: the response to its request arrives.
LegacyIPAnswered ==
  /\ legacy.pc = "getIPFromDNS"
  /\ LET Answer == ZoneAnswer(zone, domain, domain)
     IN \E l \in { IF Len(Answer) > 0 /\ Answer[1].type = 1
                   THEN LegacyResolved(legacy, Answer[1].data)
                   ELSE IF Len(Answer) > 0 /\ Answer[1].type = 5
                   THEN [legacy EXCEPT !.pc = "followCNAMEChain",
                                       !.currentDomain = Answer[1].data,
                                       !.hopCount = 1]
                   ELSE LegacyResolved(legacy, <<>>) } :
          legacy' = l
  /\ UNCHANGED detectorVars

\* getIPFromDNS: its request or the reading of the body fails.
LegacyIPFailed ==
  /\ legacy.pc = "getIPFromDNS"
  /\ \E l \in {LegacyResolved(legacy, <<>>)} : legacy' = l
  /\ UNCHANGED detectorVars

\* followCNAMEChain: the response of a hop arrives.
LegacyHopAnswered ==
  /\ legacy.pc = "followCNAMEChain"
  /\ LET Answer == ZoneAnswer(zone, domain, legacy.currentDomain)
     IN \E l \in { IF Len(Answer) > 0 /\ Answer[1].type = 1
                   THEN LegacyResolved(legacy, Answer[1].data)
                   ELSE IF Len(Answer) > 0 /\ Answer[1].type = 5
                   THEN IF legacy.hopCount < maxHops
                        THEN [legacy EXCEPT !.currentDomain = Answer[1].data,
                                            !.hopCount = @ + 1]
                        ELSE LegacyResolved(
                               [legacy EXCEPT !.currentDomain = Answer[1].data], <<>>)
                   ELSE LegacyResolved(legacy, <<>>) } :
          legacy' = l
  /\ UNCHANGED detectorVars

\* followCNAMEChain: the request of a hop fails.
LegacyHopFailed ==
  /\ legacy.pc = "followCNAMEChain"
  /\ \E l \in {LegacyResolved(legacy, <<>>)} : legacy' = l
  /\ UNCHANGED detectorVars

\* The legacy getASNInfo settles, and step 2 runs.
LegacyASNSettled ==
  /\ legacy.pc = "getASNInfo"
  /\ \E asnInfo \in {LegacyNoASNInfo} \cup {LegacyASNInfo(org) : org \in OrgTexts} :
       \E r \in {LegacyStep2(legacy.results, asnInfo)} :
         legacy' = [legacy EXCEPT !.asnInfo = asnInfo, !.results = r,
                                  !.pc = "getReverseDNS"]
  /\ UNCHANGED detectorVars

\* The legacy getReverseDNS settles (<<>>: null, no Answer or a failure),
\* step 3 runs and getCNAMEChain issues its first request.
LegacyReverseDNSSettled ==
  /\ legacy.pc = "getReverseDNS"
  /\ \E reverseDNS \in {<<>>} \cup PTRNames :
       \E r \in {LegacyStep3(legacy.results, reverseDNS)} :
         legacy' = [legacy EXCEPT !.reverseDNS = reverseDNS, !.results = r,
                                  !.pc = "getCNAMEChain", !.currentDomain = domain,
                                  !.hopCount = 1, !.chain = <<>>]
  /\ UNCHANGED detectorVars

\* getCNAMEChain: the response of a hop arrives.
LegacyCNAMEAnswered ==
  /\ legacy.pc = "getCNAMEChain"
  /\ LET Answer == LegacyCNAMEAnswer(zone, domain, legacy.currentDomain)
     IN \E l \in { IF Len(Answer) > 0 /\ Answer[1].type = 5
                   THEN IF legacy.hopCount < maxHops
                        THEN [legacy EXCEPT !.chain = Append(@, Answer[1].data),
                                            !.currentDomain = Answer[1].data,
                                            !.hopCount = @ + 1]
                        ELSE LegacyReturn(
                               [legacy EXCEPT !.chain = Append(@, Answer[1].data),
                                              !.currentDomain = Answer[1].data])
                   ELSE LegacyReturn(legacy) } :
          legacy' = l
  /\ UNCHANGED detectorVars

\* getCNAMEChain: the request of a hop fails and the loop is left.
LegacyCNAMEFailed ==
  /\ legacy.pc = "getCNAMEChain"
  /\ \E l \in {LegacyReturn(legacy)} : legacy' = l
  /\ UNCHANGED detectorVars

\* A request of the legacy detector, made by fetch without a timeout, never
\* settles.
LegacyStall ==
  /\ legacy.pc \in {"getIPFromDNS", "followCNAMEChain", "getASNInfo",
                    "getReverseDNS", "getCNAMEChain"}
  /\ legacy' = [legacy EXCEPT !.pc = "hung"]
  /\ UNCHANGED detectorVars

LegacyNext ==
  \/ LegacyIPAnswered
  \/ LegacyIPFailed
  \/ LegacyHopAnswered
  \/ LegacyHopFailed
  \/ LegacyASNSettled
  \/ LegacyReverseDNSSettled
  \/ LegacyCNAMEAnswered
  \/ LegacyCNAMEFailed
  \/ LegacyStall

LegacySpec == LegacyInit /\ [][LegacyNext]_vars

\* =================================================================== claims
Returned == pc = "returned"

\* C1: one call of getIPsFromDNS issues at most 10 doDNSLookup calls, for
\* every chain length, cycle, self-reference and multi-target answer.
C1_LookupBudget == dnsCalls <= 10

\* C1 witness: the tenth lookup has returned and getIPsFromDNS has returned
\* with names still waiting in the queue.
C1_Witness ==
  dnsStatus = "returned" /\ dnsCalls = 10 /\ requestCount = 10 /\ Len(domainsToFollow) > 0

\* The indices of the evidence entries that satisfy a test.
EntriesWhere(Test(_)) ==
  {i \in 1..Len(results.evidence) : Test(results.evidence[i])}

\* The sum of the weights of a set of evidence entries, by index.
RECURSIVE WeightSum(_)
WeightSum(S) ==
  IF S = {} THEN 0
  ELSE LET i == CHOOSE i \in S : TRUE
       IN results.evidence[i].weight + WeightSum(S \ {i})

EmptyResult ==
  /\ results.cdnDetected = FALSE
  /\ results.cdnProvider = Null
  /\ results.evidence = <<>>
  /\ results.confidence.num = 0

\* C2: detectCDN never rejects, whichever of its requests fail; when the
\* header fetch fails and discovery yields no IP, the result is the empty
\* one (not detected, no provider, no evidence, confidence 0).
C2_NeverRejects ==
  /\ pc # "rejected"
  /\ (Returned /\ headersStatus = "rejected" /\ (dnsStatus = "threw" \/ Len(ips) = 0))
       => EmptyResult

\* C2 witness: the header fetch failed, discovery used up its budget of ten
\* lookups without finding an address, and detectCDN has returned.
C2_Witness ==
  /\ Returned
  /\ headersStatus = "rejected"
  /\ dnsStatus = "returned"
  /\ requestCount = 10
  /\ Len(ips) = 0

\* The outcomes of the ASN lookups that gave a record, and of the PTR
\* lookups that gave a name.
LookedUpASNs == {asnResults[i].asn : i \in {j \in 1..Len(asnResults) : ~asnResults[j].isNull}}
LookedUpPTRs == {reverseDNSResults[i].name : i \in 1..Len(reverseDNSResults)} \ {<<>>}

\* No catalog entry matches in any signal of this call.
NoSignal ==
  \A k \in 1..Len(cdnSignatures) :
    LET sig == cdnSignatures[k] IN
    /\ LookedUpASNs \cap Range(sig.asns) = {}
    /\ \A s \in Range(sig.domains) :
         /\ \A h \in Range(cNameChain) : ~Includes(h, s)
         /\ \A n \in LookedUpPTRs : ~Includes(n, s)
    /\ Range(sig.headers) \cap DOMAIN data.headers = {}
    /\ \A t \in Range(sig.servers) :
         <<"server">> \in DOMAIN data.headers => ~Includes(data.headers[<<"server">>], t)

\* C3: in every returned result cdnDetected is true exactly when there is
\* evidence; without a match in any signal the result is the empty one; and
\* with evidence cdnProvider is the provider of one of the entries.
C3_DetectedIffEvidence ==
  Returned =>
    /\ results.cdnDetected <=> Len(results.evidence) > 0
    /\ NoSignal => EmptyResult
    /\ Len(results.evidence) > 0 =>
         \E i \in 1..Len(results.evidence) :
           results.evidence[i].provider = results.cdnProvider

\* C3 witness: a call that fetched headers, found an address and got an ASN
\* record and a PTR name for it, none of which matches the catalog.
C3_Witness ==
  /\ Returned
  /\ NoSignal
  /\ data.headers # <<>>
  /\ Len(data.ips) > 0
  /\ LookedUpASNs \ {NaN} # {}
  /\ LookedUpPTRs # {}

SameProvider(p) == LET Test(e) == e.provider = p IN EntriesWhere(Test)
AllEntries == 1..Len(results.evidence)

\* C4: with evidence, confidence is the summed weight of the entries of
\* cdnProvider over the summed weight of all entries, it lies in (0, 1], and
\* it is 1 exactly when all evidence belongs to one provider.
C4_Confidence ==
  (Returned /\ Len(results.evidence) > 0) =>
    /\ results.confidence.num = WeightSum(SameProvider(results.cdnProvider))
    /\ results.confidence.den = WeightSum(AllEntries)
    /\ 0 < results.confidence.num
    /\ results.confidence.num <= results.confidence.den
    /\ results.confidence.num = results.confidence.den
         <=> \A i \in AllEntries : results.evidence[i].provider = results.cdnProvider

\* C4 witness: a result whose evidence names two providers, so that the
\* confidence is a proper fraction.
C4_Witness ==
  /\ Returned
  /\ \E i, j \in AllEntries : results.evidence[i].provider # results.evidence[j].provider
  /\ results.confidence.num < results.confidence.den

\* The catalog's iteration order as the claim gives it.
C5_Order == <<"Alibaba", "Akamai", "Cloudflare", "Fastly", "CloudFront", "Google", "Azure">>
C5_Index(p) == CHOOSE i \in 1..Len(C5_Order) : C5_Order[i] = p
C5_Weight(p) == WeightSum(SameProvider(p))
EvidenceProviders == {results.evidence[i].provider : i \in AllEntries}

\* C5: with evidence, cdnProvider has the maximal summed weight and is, among
\* the providers with that weight, the first in catalog order; one ASN entry
\* (100) of A against one header entry (30) of B gives A and 100/130.
C5_Winner ==
  (Returned /\ Len(results.evidence) > 0) =>
    /\ results.cdnProvider \in EvidenceProviders
    /\ \A p \in EvidenceProviders :
         \/ C5_Weight(p) < C5_Weight(results.cdnProvider)
         \/ /\ C5_Weight(p) = C5_Weight(results.cdnProvider)
            /\ C5_Index(results.cdnProvider) <= C5_Index(p)
    /\ (/\ Len(results.evidence) = 2
        /\ results.evidence[1].weight = 100
        /\ results.evidence[2].weight = 30
        /\ results.evidence[2].message.kind = "Header"
        /\ results.evidence[1].provider # results.evidence[2].provider)
         => /\ results.cdnProvider = results.evidence[1].provider
            /\ results.confidence = [num |-> 100, den |-> 130]

\* C5 witness: two providers share the maximal summed weight.
C5_Witness ==
  /\ Returned
  /\ \E p, q \in EvidenceProviders :
       /\ p # q
       /\ C5_Weight(p) = C5_Weight(q)
       /\ \A r \in EvidenceProviders : C5_Weight(r) <= C5_Weight(p)

\* The scenario of C5: an ASN match of one provider against a header match
\* of another.
C5_Scenario ==
  /\ Returned
  /\ Len(results.evidence) = 2
  /\ results.evidence[1].weight = 100
  /\ results.evidence[2].weight = 30
  /\ results.evidence[2].message.kind = "Header"
  /\ results.evidence[1].provider # results.evidence[2].provider

\* The number of suffixes of a catalog entry that a name contains.
SuffixHits(sig, name) ==
  Cardinality({i \in 1..Len(sig.domains) : Includes(name, sig.domains[i])})

ASNEntries(provider, asn) ==
  LET Test(e) == e.weight = 100 /\ e.provider = provider /\ e.message.asn = asn
  IN EntriesWhere(Test)

\* C6: for every provider and every ASN of its catalog set that some ASN
\* lookup of a discovered IP returned, the evidence has exactly one entry of
\* weight 100 for that provider and ASN, however many IPs share the ASN; no
\* other (provider, ASN) pair has an entry of weight 100.
C6_ASNOnce ==
  Returned =>
    /\ \A k \in 1..Len(cdnSignatures) :
         \A a \in Range(cdnSignatures[k].asns) :
           Cardinality(ASNEntries(cdnSignatures[k].provider, a))
             = IF a \in LookedUpASNs THEN 1 ELSE 0
    /\ \A i \in AllEntries :
         results.evidence[i].weight = 100 =>
           /\ results.evidence[i].message.kind = "ASN"
           /\ \E k \in 1..Len(cdnSignatures) :
                /\ cdnSignatures[k].provider = results.evidence[i].provider
                /\ results.evidence[i].message.asn \in Range(cdnSignatures[k].asns)
                /\ results.evidence[i].message.asn \in LookedUpASNs

\* C6 witness: two discovered IPs whose ASN lookups both returned 13335.
C6_Witness ==
  /\ Returned
  /\ Len(asnResults) = 2
  /\ asnResults[1].asn = 13335
  /\ asnResults[2].asn = 13335
  /\ Cardinality(ASNEntries("Cloudflare", 13335)) = 1

NameEntries(provider, kind, name) ==
  LET Test(e) == e.provider = provider /\ e.message.kind = kind /\ e.message.name = name
  IN EntriesWhere(Test)

\* The names a call has met: visited by discovery, answered by a PTR lookup.
MetNames == Range(cNameChain) \cup LookedUpPTRs

\* The hostnames detectCDN takes from discovery: those of a getIPsFromDNS
\* call that returned, without a failed lookup, at least one address.
TakenHostnames ==
  IF dnsStatus = "returned" /\ Len(ips) > 0 THEN Range(cNameChain) ELSE {}

\* C7 as amended: for every hostname of a discovery that returned at least one
\* IP, and for every distinct PTR result, each catalog suffix contained in the
\* name gives one separate entry of weight 50 (names, suffixes and the CNAME
\* and PTR sides are not deduplicated against each other); a discovery that
\* threw or returned no IP gives no hostname entry at all.
C7_DomainEntries ==
  Returned =>
    /\ \A k \in 1..Len(cdnSignatures) : \A name \in MetNames :
         /\ Cardinality(NameEntries(cdnSignatures[k].provider, "CNAME", name))
              = IF name \in TakenHostnames THEN SuffixHits(cdnSignatures[k], name) ELSE 0
         /\ Cardinality(NameEntries(cdnSignatures[k].provider, "Reverse DNS", name))
              = IF name \in LookedUpPTRs THEN SuffixHits(cdnSignatures[k], name) ELSE 0
    /\ \A i \in AllEntries :
         results.evidence[i].message.kind \in {"CNAME", "Reverse DNS"} =>
           /\ results.evidence[i].weight = 50
           /\ results.evidence[i].message.name \in MetNames

\* C7 witness: a visited hostname that contains two suffixes of one provider
\* (two entries), and a name met both as visited hostname and as PTR result
\* (one entry on each side).
C7_Witness ==
  /\ Returned
  /\ Host(3) \in TakenHostnames
  /\ Cardinality(NameEntries("CloudFront", "CNAME", Host(3))) = 2
  /\ Host(2) \in TakenHostnames \cap LookedUpPTRs
  /\ Cardinality(NameEntries("Fastly", "CNAME", Host(2))) = 1
  /\ Cardinality(NameEntries("Fastly", "Reverse DNS", Host(2))) = 1

\* C7 as stated: every hostname visited by discovery gives one entry of
\* weight 50 per catalog suffix it contains (here already in the calls none
\* of whose lookups failed).
C7_AsStated ==
  (Returned /\ dnsStatus = "returned") =>
    \A k \in 1..Len(cdnSignatures) : \A name \in Range(cNameChain) :
      Cardinality(NameEntries(cdnSignatures[k].provider, "CNAME", name))
        = SuffixHits(cdnSignatures[k], name)

HeaderEntries(provider, header) ==
  LET Test(e) == e.provider = provider /\ e.weight = 30
                   /\ e.message.kind = "Header" /\ e.message.name = header
  IN EntriesWhere(Test)

\* C8: for every provider and every catalog header name of it that is a key
\* of the parsed header mapping, the evidence has exactly one entry of weight
\* 30 for that provider and header, whatever the value of the header and also
\* without any discovered IP.
C8_HeaderEntries ==
  Returned =>
    \A k \in 1..Len(cdnSignatures) : \A header \in Range(cdnSignatures[k].headers) :
      Cardinality(HeaderEntries(cdnSignatures[k].provider, header))
        = IF header \in DOMAIN data.headers THEN 1 ELSE 0

\* The parts of C9 about the header fetch and the two enrichment batches:
\* fetched headers, and the ASN record and PTR name of every IP whose lookup
\* succeeded, are in the collected data whatever the other lookups did.
C9_OtherSourcesKept ==
  Returned =>
    /\ headersStatus = "fulfilled" => data.headers # <<>>
    /\ \A a \in LookedUpASNs \ {NaN} : \E i \in 1..Len(data.asns) : data.asns[i].asn = a
    /\ LookedUpPTRs = Range(data.reverseDNS)

\* C9: when one outbound call fails, only the data of that call is absent:
\* the fetched headers, the ASN and PTR results of the other IPs and, when a
\* DNS lookup of a discovery fails, the addresses and hostnames that the
\* lookups before it obtained are still in the collected data.
C9_PartialDiscoveryKept ==
  /\ C9_OtherSourcesKept
  /\ (Returned /\ dnsStatus = "threw" /\ Len(ips) > 0) =>
       /\ Range(ips) \subseteq Range(data.ips)
       /\ Range(cNameChain) \subseteq Range(data.cnameChain)

\* The www counterpart as C10 words it: www. added if absent, stripped if
\* present.
C10_Counterpart ==
  IF Len(domain) >= 2 /\ domain[1] = "www" /\ domain[2] = "."
  THEN [i \in 1..(Len(domain) - 2) |-> domain[i + 2]]
  ELSE <<"www", ".">> \o domain

\* The CNAME targets and the A-record addresses the zone answers for a name.
C10_Targets(name) ==
  LET answer == ZoneAnswer(zone, domain, name)
  IN {answer[i].data : i \in {j \in 1..Len(answer) : answer[j].type = 5}}
C10_Addresses(name) ==
  LET answer == ZoneAnswer(zone, domain, name)
  IN {answer[i].data : i \in {j \in 1..Len(answer) : answer[j].type = 1}}

\* One CNAME step more: the names of a set and their CNAME targets.
C10_Step(S) == S \cup UNION {C10_Targets(name) : name \in S}

\* C10_Levels[n + 1]: the names at most n CNAME steps away from the two
\* seeds; every name of a zone is within MaxHosts + 2 steps.
RECURSIVE C10_LevelsUpTo(_)
C10_LevelsUpTo(n) ==
  IF n = 0 THEN << {domain, C10_Counterpart} >>
  ELSE CHOOSE next \in { Append(levels, C10_Step(levels[Len(levels)])) :
                          levels \in {C10_LevelsUpTo(n - 1)} } : TRUE

\* getIPsFromDNS has just returned: no enrichment lookup has settled yet.
JustDiscovered ==
  /\ dnsStatus = "returned"
  /\ pc = "enrich"
  /\ \A i \in 1..Len(asnResults) : asnResults[i].st = "pending"
  /\ \A i \in 1..Len(reverseDNSResults) : reverseDNSResults[i].st = "pending"

\* C10: if every lookup succeeds and at most 10 names are reachable from the
\* input domain and its www counterpart over CNAME answers, getIPsFromDNS
\* returns exactly the reachable names, in breadth-first order starting with
\* the input domain and then its counterpart, and exactly the union of the
\* A-record addresses answered for those names.
C10_Discovery ==
  JustDiscovered =>
    \A levels \in {C10_LevelsUpTo(MaxHosts + 2)} :
      LET reachable == levels[Len(levels)]
          distance(name) == CHOOSE n \in 1..Len(levels) :
            name \in levels[n] /\ \A m \in 1..(n - 1) : name \notin levels[m]
      IN Cardinality(reachable) <= 10 =>
           /\ Range(cNameChain) = reachable
           /\ Len(cNameChain) = Cardinality(reachable)
           /\ cNameChain[1] = domain
           /\ cNameChain[2] = C10_Counterpart
           /\ \A i \in 1..(Len(cNameChain) - 1) :
                distance(cNameChain[i]) <= distance(cNameChain[i + 1])
           /\ Range(ips) = UNION {C10_Addresses(name) : name \in reachable}
           /\ Len(ips) = Cardinality(Range(ips))

\* C10 witness: a discovery over exactly 10 reachable names, the last of
\* which answers with an address, has just returned.
C10_Witness ==
  /\ JustDiscovered
  /\ Len(cNameChain) = 10
  /\ Len(domainsToFollow) = 0
  /\ zone.len = 8
  /\ Len(ips) > 0

\* ------------------------------------------------------------------- C11
\* The address each issued getASNInfo call and each issued getReverseDNS
\* call is made for: the batches map data.ips position by position.
C11_ASNLookups == [i \in 1..Len(asnResults) |-> data.ips[i]]
C11_PTRLookups == [i \in 1..Len(reverseDNSResults) |-> data.ips[i]]

\* How many calls of a batch are made for an address.
C11_Count(lookups, ip) == Cardinality({i \in 1..Len(lookups) : lookups[i] = ip})

\* C11: after a discovery that returned, exactly one ASN lookup and one PTR
\* lookup is issued for every address of the set discovery produced and none
\* for any other address; unless discovery returned an address, no
\* enrichment lookup is issued at all.
C11_Enrichment ==
  /\ dnsStatus = "returned" =>
       /\ \A ip \in Range(ips) :
            /\ C11_Count(C11_ASNLookups, ip) = 1
            /\ C11_Count(C11_PTRLookups, ip) = 1
       /\ Range(C11_ASNLookups) \subseteq Range(ips)
       /\ Range(C11_PTRLookups) \subseteq Range(ips)
       /\ Len(asnResults) = Cardinality(Range(ips))
       /\ Len(reverseDNSResults) = Cardinality(Range(ips))
  /\ (dnsStatus # "returned" \/ Len(ips) = 0) =>
       asnResults = <<>> /\ reverseDNSResults = <<>>

\* C11 witness: the input domain answers with 192.0.2.1 twice and 192.0.2.2,
\* its counterpart with 192.0.2.1 again, and two lookups of each kind are
\* issued.
C11_Witness ==
  /\ dnsStatus = "returned"
  /\ zone.ipMode = 2
  /\ zone.shape = "cycle"
  /\ Len(cNameChain) = 2
  /\ Range(ips) = {IP1, IP2}
  /\ Len(asnResults) = 2
  /\ Len(reverseDNSResults) = 2

\* ------------------------------------------------------------------- C12
\* A request of the call is outstanding: the header request, a lookup of
\* discovery, or an enrichment lookup that has not settled.
C12_Outstanding ==
  \/ headersStatus = "pending"
  \/ dnsStatus = "running"
  \/ \E i \in 1..Len(asnResults) : asnResults[i].st = "pending"
  \/ \E i \in 1..Len(reverseDNSResults) : reverseDNSResults[i].st = "pending"

\* C12: an ASN or PTR lookup is issued only once the header request has
\* settled and discovery has returned; the evidence list, the data the
\* classification reads and the result change only when no header, DNS, ASN
\* or PTR request of the call is outstanding.
C12_Ordering ==
  /\ (Len(asnResults) > 0 \/ Len(reverseDNSResults) > 0) =>
       headersStatus # "pending" /\ dnsStatus = "returned"
  /\ (results # InitialResults \/ data.asns # <<>> \/ data.reverseDNS # <<>>) =>
       pc = "returned"
  /\ pc = "returned" =>
       ~C12_Outstanding /\ dnsStatus \in {"returned", "threw"}

\* C12 witness: a call that fetched headers, discovered two addresses and
\* settled all four enrichment lookups has returned with evidence.
C12_Witness ==
  /\ pc = "returned"
  /\ headersStatus = "fulfilled"
  /\ dnsStatus = "returned"
  /\ Len(asnResults) = 2
  /\ Len(reverseDNSResults) = 2
  /\ Len(results.evidence) > 1

\* ------------------------------------------------------------------- C13
\* C13: every resolver call is bounded by its timeout, also when the
\* upstream stalls after the response has started, so that no detectCDN
\* call is ever left waiting for a request that can no longer settle.
C13_NoHang == pc # "hung"

\* ------------------------------------------------------------------- C15
\* C15: getASNInfo settles with no record when the request fails and when
\* the org field is missing or does not start with an AS<number> token, so
\* that every record it returns, and every record collected in data.asns,
\* carries a parsed AS number.
C15_AbsentUnlessParsed ==
  /\ \A i \in 1..Len(asnResults) :
       (asnResults[i].st = "fulfilled" /\ ~asnResults[i].isNull) =>
         asnResults[i].asn # NaN
  /\ \A j \in 1..Len(data.asns) : data.asns[j].asn # NaN

\* ------------------------------------------------------------------- C16
\* The evidence entries of weight 30 for a provider and a server token.
ServerEntries(provider, token) ==
  LET Test(e) == e.provider = provider /\ e.weight = 30
                   /\ e.message.kind = "Server header" /\ e.message.name = token
  IN EntriesWhere(Test)

\* The server token matches: the mapping has the key server and its value
\* contains the token.
C16_Matches(token) ==
  /\ <<"server">> \in DOMAIN data.headers
  /\ \E i \in 0..Len(data.headers[<<"server">>]) :
       \E j \in i..Len(data.headers[<<"server">>]) :
         SubSeq(data.headers[<<"server">>], i + 1, j) = token

\* C16: for every provider and every server token of it, the evidence has
\* one entry of weight 30 exactly when the parsed header mapping has the key
\* server and its value contains the token, and it has no other server
\* entry; without a server header the call returns with no server entry.
C16_ServerEntries ==
  Returned =>
    /\ \A k \in 1..Len(cdnSignatures) : \A token \in Range(cdnSignatures[k].servers) :
         Cardinality(ServerEntries(cdnSignatures[k].provider, token))
           = IF C16_Matches(token) THEN 1 ELSE 0
    /\ \A i \in AllEntries :
         results.evidence[i].message.kind = "Server header" =>
           /\ results.evidence[i].weight = 30
           /\ C16_Matches(results.evidence[i].message.name)
           /\ \E k \in 1..Len(cdnSignatures) :
                /\ cdnSignatures[k].provider = results.evidence[i].provider
                /\ results.evidence[i].message.name \in Range(cdnSignatures[k].servers)

\* C16 witness: the header server: cloudflare-nginx was fetched and the
\* returned evidence has the Cloudflare server entry.
C16_Witness ==
  /\ Returned
  /\ <<"server">> \in DOMAIN data.headers
  /\ data.headers[<<"server">>] = <<"cloudflare", "-nginx">>
  /\ Cardinality(ServerEntries("Cloudflare", <<"cloudflare">>)) = 1

\* ------------------------------------------------------------------- C18
\* A sequence without a repeated element.
C18_NoDuplicate(s) == \A i, j \in 1..Len(s) : s[i] = s[j] => i = j

\* C18: at every step of getIPsFromDNS the work queue holds no hostname
\* twice and no visited hostname, the hostname of the lookup in flight is
\* neither visited nor queued, every lookup that returned was for a hostname
\* not visited before, and the address set and the hostname set hold no
\* element twice.
C18_QueueInvariant ==
  /\ C18_NoDuplicate(domainsToFollow)
  /\ Range(domainsToFollow) \cap Range(cNameChain) = {}
  /\ dnsStatus \in {"running", "threw"} =>
       /\ domainToFollow \notin Range(cNameChain)
       /\ domainToFollow \notin Range(domainsToFollow)
  /\ requestCount = Len(cNameChain)
  /\ C18_NoDuplicate(cNameChain)
  /\ C18_NoDuplicate(ips)

\* C18 witness: in a zone whose names all answer with every alias, and in a
\* zone whose CNAME chain leads back to its start, discovery has visited
\* five names and still has names queued, or has returned.
C18_Witness ==
  /\ zone.shape \in {"full", "cycle"}
  /\ zone.len >= 4
  /\ Len(cNameChain) >= 5
  /\ Len(ips) > 0
  /\ \/ dnsStatus = "running" /\ Len(domainsToFollow) > 0
     \/ dnsStatus = "returned" /\ zone.shape = "cycle"

\* ------------------------------------------------------------------- C17
LegacyReturned == legacy.pc = "returned"

\* A name contains a catalog suffix.
C17_Contains(name, suffix) ==
  \E i \in 0..Len(name) : \E j \in i..Len(name) : SubSeq(name, i + 1, j) = suffix

\* The catalog providers whose ASN set contains the looked-up AS number.
C17_ASNMatches ==
  IF legacy.asnInfo.isNull THEN {}
  ELSE {k \in 1..Len(legacySignatures) :
          \E i \in 1..Len(legacySignatures[k].asns) :
            legacySignatures[k].asns[i] = ParseInt(legacy.asnInfo.asn)}

\* The catalog suffixes, by provider and position, the PTR name contains.
C17_PTRMatches ==
  {m \in UNION {{<<k, j>> : j \in 1..Len(legacySignatures[k].domains)} :
                  k \in 1..Len(legacySignatures)} :
     C17_Contains(legacy.reverseDNS, legacySignatures[m[1]].domains[m[2]])}

\* The pairs of a hop of the CNAME chain and a catalog suffix it contains.
C17_CNAMEMatches ==
  {m \in UNION {{<<i, k, j>> : j \in 1..Len(legacySignatures[k].domains)} :
                  i \in 1..Len(legacy.chain), k \in 1..Len(legacySignatures)} :
     C17_Contains(legacy.chain[m[1]], legacySignatures[m[2]].domains[m[3]])}

\* The positions of the evidence strings of a kind, and the place of a kind
\* in the order ASN, reverse DNS, CNAME.
C17_Strings(kind) ==
  {i \in 1..Len(legacy.results.evidence) : legacy.results.evidence[i].kind = kind}
C17_Rank(kind) ==
  CASE kind = "ASN" -> 1
    [] kind = "Reverse DNS" -> 2
    [] OTHER -> 3

\* C17: the confidence a legacy call returns is 40 for each catalog provider
\* whose ASN set contains the looked-up ASN, plus 30 for each catalog suffix
\* the reverse-DNS name contains, plus 25 for each pair of a CNAME hop and a
\* catalog suffix it contains; the evidence has one string per match, in the
\* order ASN, reverse DNS, CNAME; one match of each kind gives 95; and
\* cdnDetected is true exactly when the confidence is above 0.
C17_LegacyConfidence ==
  LegacyReturned =>
    /\ legacy.results.confidence
         = 40 * Cardinality(C17_ASNMatches) + 30 * Cardinality(C17_PTRMatches)
             + 25 * Cardinality(C17_CNAMEMatches)
    /\ Cardinality(C17_Strings("ASN")) = Cardinality(C17_ASNMatches)
    /\ Cardinality(C17_Strings("Reverse DNS")) = Cardinality(C17_PTRMatches)
    /\ Cardinality(C17_Strings("CNAME chain")) = Cardinality(C17_CNAMEMatches)
    /\ \A i, j \in 1..Len(legacy.results.evidence) :
         i < j => C17_Rank(legacy.results.evidence[i].kind)
                    <= C17_Rank(legacy.results.evidence[j].kind)
    /\ ( /\ Cardinality(C17_ASNMatches) = 1
         /\ Cardinality(C17_PTRMatches) = 1
         /\ Cardinality(C17_CNAMEMatches) = 1 ) => legacy.results.confidence = 95
    /\ legacy.results.cdnDetected <=> legacy.results.confidence > 0

\* C17 witness: a legacy call returned with one ASN match, one reverse-DNS
\* match and one CNAME match, three evidence strings and confidence 95.
C17_Witness ==
  /\ LegacyReturned
  /\ Cardinality(C17_ASNMatches) = 1
  /\ Cardinality(C17_PTRMatches) = 1
  /\ Cardinality(C17_CNAMEMatches) = 1
  /\ Len(legacy.results.evidence) = 3
  /\ legacy.results.confidence = 95
  /\ legacy.results.cdnDetected

====
